---- MODULE Spec2Model ----
(***************************************************************************)
(* A model of the NestJS / Mongoose products backend:                      *)
(*   - process start: env-file resolution, configuration validation,       *)
(*     database connection, middleware registration, listen;               *)
(*   - per request: the express stack (LoggerMiddleware, AuthMiddleware,   *)
(*     router), the ValidationPipe, the ProductsController handlers and    *)
(*     the ProductsService persistence calls on the products collection.   *)
(***************************************************************************)
EXTENDS Integers, Sequences, FiniteSets, TLC

VARIABLES
    env,             \* process.env: NODE_ENV, MONGODB_URI
    fs,              \* the files of the working directory: path -> content or NoFile
    phase,           \* where the process is in its startup
    envFile,         \* app.module.ts: const envFile
    rawConfig,       \* the record handed to the validate callback
    validatedConfig, \* what validate returned
    bootError,       \* the Error that aborted the startup
    dbUri,           \* the uri the MongooseModule factory connected with
    stack,           \* the express stack: the layers in registration order
    reqs,            \* the requests in flight: slot -> request context
    store,           \* the products collection: _id -> document
    oidCounter,      \* the driver's ObjectId counter
    created,         \* history: _id -> the document createProduct's save returned
    modified,        \* history: the ids updated or deleted since they were created
    deleted,         \* history: the ids findByIdAndDelete has removed
    served           \* history: the number of requests received so far

bootVars == <<env, fs, phase, envFile, rawConfig, validatedConfig, bootError, dbUri, stack>>
reqVars == <<reqs, store, oidCounter, created, modified, deleted, served>>
vars == <<env, fs, phase, envFile, rawConfig, validatedConfig, bootError, dbUri, stack,
          reqs, store, oidCounter, created, modified, deleted, served>>

----------------------------------------------------------------------------
(* JavaScript values: a tag, and the text or the number it carries. *)

JsUndefined == [t |-> "undefined", s |-> "", n |-> 0]
JsNull == [t |-> "null", s |-> "", n |-> 0]
Str(x) == [t |-> "string", s |-> x, n |-> 0]
Num(k) == [t |-> "number", s |-> "", n |-> k]
Bool(b) == [t |-> "boolean", s |-> "", n |-> IF b THEN 1 ELSE 0]

Digit(d) == CASE d = 0 -> "0" [] d = 1 -> "1" [] d = 2 -> "2" [] d = 3 -> "3"
              [] d = 4 -> "4" [] d = 5 -> "5" [] d = 6 -> "6" [] d = 7 -> "7"
              [] d = 8 -> "8" [] OTHER -> "9"

RECURSIVE NatToString(_)
NatToString(k) == IF k < 10 THEN Digit(k) ELSE NatToString(k \div 10) \o Digit(k % 10)

\* String(value), and the text a template literal `${value}` inserts.
ToJsString(v) ==
    CASE v.t = "undefined" -> "undefined"
      [] v.t = "null" -> "null"
      [] v.t = "string" -> v.s
      [] v.t = "number" -> IF v.n < 0 THEN "-" \o NatToString(0 - v.n) ELSE NatToString(v.n)
      [] OTHER -> IF v.n = 1 THEN "true" ELSE "false"

\* !value for the values a header or a query result can hold.
Falsy(v) ==
    \/ v.t \in {"undefined", "null"}
    \/ v.t = "string" /\ v.s = ""
    \/ v.t = "number" /\ v.n = 0
    \/ v.t = "boolean" /\ v.n = 0

----------------------------------------------------------------------------
(* Startup: app.module.ts is evaluated on import, then bootstrap() runs. *)

NoFile == [exists |-> FALSE, MONGODB_URI |-> JsUndefined, PORT |-> JsUndefined]
EnvFileWith(uri) == [exists |-> TRUE, MONGODB_URI |-> uri, PORT |-> JsUndefined]

NoError == [kind |-> "none", detail |-> <<>>]

ConfigKeys == {"MONGODB_URI", "PORT"}

\* class EnvironmentVariables: the decorated properties, in declaration order.
EnvironmentVariables == <<[property |-> "MONGODB_URI", designType |-> "string",
                           constraint |-> "isString"]>>

DeclaredProperty(key) ==
    \E i \in 1..Len(EnvironmentVariables) : EnvironmentVariables[i].property = key

DesignType(key) ==
    (CHOOSE i \in 1..Len(EnvironmentVariables) : EnvironmentVariables[i].property = key)

\* plainToInstance(EnvironmentVariables, config, {enableImplicitConversion: true}):
\* every key of the plain object is copied; a declared property whose reflected
\* type is String is converted with String(value) unless it is null or undefined.
plainToInstance(config) ==
    [k \in DOMAIN config |->
        IF DeclaredProperty(k) /\ EnvironmentVariables[DesignType(k)].designType = "string"
           /\ config[k].t \notin {"undefined", "null"}
        THEN Str(ToJsString(config[k]))
        ELSE config[k]]

\* @IsString(): typeof value === 'string'
IsString(v) == v.t = "string"

\* Mutant: skipMissingProperties: true, a property that is undefined or null
\* is not validated.
validateSync_skipMissing(instance) ==
    LET failing(d) == /\ instance[d.property].t \notin {"undefined", "null"}
                      /\ instance[d.property].t # "string"
        errs == SelectSeq(EnvironmentVariables, failing)
    IN [i \in 1..Len(errs) |-> [property |-> errs[i].property,
                                 constraint |-> errs[i].constraint]]

\* validateSync(instance, {skipMissingProperties: false}): one ValidationError per
\* decorated property whose constraint fails, missing properties included.
validateSync(instance) ==
    LET failing(d) == ~IsString(instance[d.property])
        errs == SelectSeq(EnvironmentVariables, failing)
    IN [i \in 1..Len(errs) |-> [property |-> errs[i].property,
                                 constraint |-> errs[i].constraint]]

ErrorProperties(errors) == [i \in 1..Len(errors) |-> errors[i].property]

\* app.module.ts: the validate callback of ConfigModule.forRoot.
validate(config) ==
    LET validated == plainToInstance(config)
        errors == validateSync(validated)
    IN IF Len(errors) > 0
       THEN [threw |-> TRUE,
             error |-> [kind |-> "ConfigurationInvalid", detail |-> ErrorProperties(errors)],
             value |-> config]
       ELSE [threw |-> FALSE, error |-> NoError, value |-> validated]

\* Mutant: the test of the error count is off by one.
validateEnvironmentVariables_offByOne(config) ==
    LET validated == plainToInstance(config)
        errors == validateSync(validated)
    IN IF Len(errors) > 1
       THEN [threw |-> TRUE,
             error |-> [kind |-> "ConfigurationInvalid", detail |-> ErrorProperties(errors)],
             value |-> config]
       ELSE [threw |-> FALSE, error |-> NoError, value |-> validated]

\* config/env-validation.ts: the same validation as an exported function.
validateEnvironmentVariables(config) ==
    LET validated == plainToInstance(config)
        errors == validateSync(validated)
    IN IF Len(errors) > 0
       THEN [threw |-> TRUE,
             error |-> [kind |-> "ConfigurationInvalid", detail |-> ErrorProperties(errors)],
             value |-> config]
       ELSE [threw |-> FALSE, error |-> NoError, value |-> validated]

\* fs.existsSync(path)
existsSync(path) == path \in DOMAIN fs /\ fs[path].exists

\* Mutant: an unset or empty mode falls back to the dev file.
EnvFilePath_fallback(mode) == ".env." \o (IF Falsy(mode) THEN "dev" ELSE ToJsString(mode))

\* const envFile = `.env.${process.env.NODE_ENV}`
EnvFilePath(mode) == ".env." \o ToJsString(mode)

\* ConfigModule.forRoot: the parsed env file overlaid with process.env.
MergedConfig(file, penv) ==
    [k \in ConfigKeys |-> IF penv[k].t # "undefined" THEN penv[k] ELSE file[k]]

UnsetConfig == [k \in ConfigKeys |-> JsUndefined]

\* app.module.ts lines 13-17, run when the module is imported.
EvaluateAppModule ==
    /\ phase = "start"
    /\ envFile' = EnvFilePath(env.NODE_ENV)
    /\ IF ~existsSync(envFile')
       THEN /\ phase' = "failed"
            /\ bootError' = [kind |-> "ConfigurationMissing", detail |-> <<envFile'>>]
       ELSE /\ phase' = "resolved"
            /\ bootError' = bootError
    /\ UNCHANGED <<env, fs, rawConfig, validatedConfig, dbUri, stack>>
    /\ UNCHANGED reqVars

\* app.module.ts lines 26-39: ConfigModule.forRoot loads envFile and validates.
ConfigModuleForRoot ==
    /\ phase = "resolved"
    /\ rawConfig' = MergedConfig(fs[envFile], env)
    /\ LET r == validate(rawConfig')
       IN IF r.threw
          THEN /\ phase' = "failed"
               /\ bootError' = r.error
               /\ validatedConfig' = validatedConfig
          ELSE /\ phase' = "configured"
               /\ bootError' = bootError
               /\ validatedConfig' = r.value
    /\ UNCHANGED <<env, fs, envFile, dbUri, stack>>
    /\ UNCHANGED reqVars

\* main.ts: NestFactory.create(AppModule); the MongooseModule factory reads
\* MONGODB_URI from the ConfigService and connects.
bootstrap_create ==
    /\ phase = "configured"
    /\ dbUri' = validatedConfig["MONGODB_URI"]
    /\ phase' = "created"
    /\ UNCHANGED <<env, fs, envFile, rawConfig, validatedConfig, bootError, stack>>
    /\ UNCHANGED reqVars

\* main.ts: app.use(LoggerMiddleware)
bootstrap_use ==
    /\ phase = "created"
    /\ stack' = Append(stack, "LoggerMiddleware")
    /\ phase' = "wired"
    /\ UNCHANGED <<env, fs, envFile, rawConfig, validatedConfig, bootError, dbUri>>
    /\ UNCHANGED reqVars

\* Mutant: the middleware is applied to no route.
configure_unapplied(layers) == layers

\* AppModule.configure: consumer.apply(AuthMiddleware).forRoutes('*')
configure(layers) == Append(layers, "AuthMiddleware")

\* main.ts: app.listen(...): the module middleware, then the router, are
\* registered behind what app.use has already put on the stack.
bootstrap_listen ==
    /\ phase = "wired"
    /\ stack' = Append(configure(stack), "Router")
    /\ phase' = "listening"
    /\ UNCHANGED <<env, fs, envFile, rawConfig, validatedConfig, bootError, dbUri>>
    /\ UNCHANGED reqVars

----------------------------------------------------------------------------
(* Identifiers: texts as sequences of characters. *)

HexChars == {"0", "1", "2", "3", "4", "5", "6", "7", "8", "9",
             "a", "b", "c", "d", "e", "f", "A", "B", "C", "D", "E", "F"}

\* The length of an ObjectId written in hexadecimal.
ObjectIdHexLength == 24

Repeat(c, k) == [i \in 1..k |-> c]

\* mongoose.Types.ObjectId.isValid(id) for a route parameter, which is a text.
ObjectId_isValid(id) ==
    /\ Len(id) = ObjectIdHexLength
    /\ \A i \in 1..Len(id) : id[i] \in HexChars

\* The _id the driver gives the k-th document it inserts: never one it gave before.
NewObjectId(k) ==
    [i \in 1..ObjectIdHexLength |->
        IF i = ObjectIdHexLength THEN Digit(k % 10)
        ELSE IF i = ObjectIdHexLength - 1 THEN Digit((k \div 10) % 10)
        ELSE "0"]

----------------------------------------------------------------------------
(* Request bodies and the class-validator rules of the DTOs. *)

BodyFields == {"name", "description", "price", "category"}

Body(name, description, price, category) ==
    [name |-> name, description |-> description, price |-> price, category |-> category]

\* @IsNotEmpty(): value !== '' && value !== null && value !== undefined
IsNotEmpty(v) == ~(v.t \in {"undefined", "null"} \/ (v.t = "string" /\ v.s = ""))

\* @IsNumber(): typeof value === 'number' (JSON carries no NaN or Infinity)
IsNumber(v) == v.t = "number"

\* @Min(0)
Min0(v) == v.t = "number" /\ v.n >= 0

Check(name, v) ==
    CASE name = "isNotEmpty" -> IsNotEmpty(v)
      [] name = "isString" -> IsString(v)
      [] name = "isNumber" -> IsNumber(v)
      [] OTHER -> Min0(v)

\* dto/CreateProduct.dto.ts
CreateProductDto ==
    << [property |-> "name", optional |-> FALSE, checks |-> {"isNotEmpty", "isString"}],
       [property |-> "description", optional |-> TRUE, checks |-> {"isString"}],
       [property |-> "price", optional |-> FALSE, checks |-> {"isNotEmpty", "isNumber"}] >>

\* dto/UpdateProduct.dto.ts
UpdateProductDto ==
    << [property |-> "name", optional |-> TRUE, checks |-> {"isString"}],
       [property |-> "description", optional |-> TRUE, checks |-> {"isString"}],
       [property |-> "price", optional |-> TRUE, checks |-> {"isNumber", "min"}],
       [property |-> "category", optional |-> TRUE, checks |-> {"isString"}] >>

\* new ValidationPipe(): the properties of the body that fail their decorators;
\* @IsOptional() skips a property that is undefined or null. No whitelist: the
\* properties without decorators pass through untouched.
ValidationPipe(dto, body) ==
    LET fails(rule) ==
            /\ ~(rule.optional /\ body[rule.property].t \in {"undefined", "null"})
            /\ \E c \in rule.checks : ~Check(c, body[rule.property])
        bad == SelectSeq(dto, fails)
    IN [i \in 1..Len(bad) |-> bad[i].property]

----------------------------------------------------------------------------
(* The products collection behind the Mongoose model. *)

NoDoc == [_id |-> <<>>, name |-> JsUndefined, description |-> JsUndefined,
          price |-> JsUndefined, category |-> JsUndefined]

Null == [null |-> TRUE, docs |-> <<>>]
One(doc) == [null |-> FALSE, docs |-> <<doc>>]
Many(docs) == [null |-> FALSE, docs |-> docs]

Ids(coll) == {coll[i]._id : i \in 1..Len(coll)}

IndexOf(coll, id) == CHOOSE i \in 1..Len(coll) : coll[i]._id = id

\* Mutant: the _id is derived from the size of the collection, so the id of a
\* deleted document is given out again.
Model_save_reuse(coll, counter, body) ==
    LET doc == [_id |-> NewObjectId(Len(coll) + 1), name |-> body.name,
                description |-> body.description, price |-> body.price,
                category |-> body.category]
    IN [coll |-> Append(coll, doc), result |-> One(doc), counter |-> counter + 1]

\* new this.productModel(createProductDto).save(): the schema's paths are taken
\* from the body, the driver adds the _id, the document is inserted and returned.
Model_save(coll, counter, body) ==
    LET doc == [_id |-> NewObjectId(counter + 1), name |-> body.name,
                description |-> body.description, price |-> body.price,
                category |-> body.category]
    IN [coll |-> Append(coll, doc), result |-> One(doc), counter |-> counter + 1]

\* Mutant: find({category: {$exists: true}}), the documents without a category
\* are left out.
Model_find_filtered(coll) ==
    LET hasCategory(d) == d.category.t # "undefined"
    IN [coll |-> coll, result |-> Many(SelectSeq(coll, hasCategory))]

\* this.productModel.find()
Model_find(coll) == [coll |-> coll, result |-> Many(coll)]

\* Mutant: findOne() with no filter, the first document whatever the id.
Model_findById_first(coll, id) ==
    [coll |-> coll, result |-> IF coll # <<>> THEN One(coll[1]) ELSE Null]

\* this.productModel.findById(id)
Model_findById(coll, id) ==
    [coll |-> coll,
     result |-> IF id \in Ids(coll) THEN One(coll[IndexOf(coll, id)]) ELSE Null]

\* Mutant: {new: true, upsert: true}, a missing document is inserted.
Model_findByIdAndUpdate_upsert(coll, id, body) ==
    LET old == IF id \in Ids(coll) THEN coll[IndexOf(coll, id)] ELSE [NoDoc EXCEPT !._id = id]
        new == [f \in DOMAIN old |->
                   IF f \in BodyFields /\ body[f].t # "undefined" THEN body[f] ELSE old[f]]
    IN [coll |-> IF id \in Ids(coll) THEN [coll EXCEPT ![IndexOf(coll, id)] = new]
                 ELSE Append(coll, new),
        result |-> One(new)]

\* Mutant: the update is written as a save of a document built from the id and
\* the body, which inserts the document when the collection has none with the id.
Model_findByIdAndUpdate_saveById(coll, id, body) ==
    LET doc == [_id |-> id, name |-> body.name, description |-> body.description,
                price |-> body.price, category |-> body.category]
    IN IF id \in Ids(coll)
       THEN [coll |-> [coll EXCEPT ![IndexOf(coll, id)] =
                          [f \in DOMAIN @ |->
                              IF f \in BodyFields /\ body[f].t # "undefined"
                              THEN body[f] ELSE @[f]]],
             result |-> One([f \in DOMAIN doc |->
                              IF f \in BodyFields /\ body[f].t # "undefined"
                              THEN body[f] ELSE coll[IndexOf(coll, id)][f]])]
       ELSE [coll |-> Append(coll, doc), result |-> One(doc)]

\* Mutant: findOneAndReplace, the stored document is replaced by the body, so
\* the paths the body leaves out are lost.
Model_findByIdAndUpdate_overwrite(coll, id, body) ==
    IF id \notin Ids(coll)
    THEN [coll |-> coll, result |-> Null]
    ELSE LET i == IndexOf(coll, id)
             old == coll[i]
             new == [f \in DOMAIN old |-> IF f \in BodyFields THEN body[f] ELSE old[f]]
         IN [coll |-> [coll EXCEPT ![i] = new], result |-> One(new)]

\* this.productModel.findByIdAndUpdate(id, updateProductDto, {new: true}): the
\* paths present in the body are $set; the document after the update is
\* returned, null when no document has the id. Nothing is inserted (no upsert).
Model_findByIdAndUpdate(coll, id, body) ==
    IF id \notin Ids(coll)
    THEN [coll |-> coll, result |-> Null]
    ELSE LET i == IndexOf(coll, id)
             old == coll[i]
             new == [f \in DOMAIN old |->
                        IF f \in BodyFields /\ body[f].t # "undefined"
                        THEN body[f] ELSE old[f]]
         IN [coll |-> [coll EXCEPT ![i] = new], result |-> One(new)]

\* this.productModel.findByIdAndDelete(id): the removed document, or null.
Model_findByIdAndDelete(coll, id) ==
    IF id \notin Ids(coll)
    THEN [coll |-> coll, result |-> Null]
    ELSE LET i == IndexOf(coll, id)
         IN [coll |-> SubSeq(coll, 1, i - 1) \o SubSeq(coll, i + 1, Len(coll)),
             result |-> One(coll[i])]

----------------------------------------------------------------------------
(* Requests. *)

MaxInFlight == 2    \* request contexts alive at once
MaxRequests == 3    \* requests received in a run
MaxProducts == 2    \* documents ever inserted in a run

Slots == 1..MaxInFlight

NotAValidId == <<"n", "o", "t", "-", "a", "-", "v", "a", "l", "i", "d", "-", "i", "d">>
NonHexId == Repeat("z", ObjectIdHexLength)
NoId == <<>>

RequestIds == {NewObjectId(k) : k \in 1..MaxProducts} \cup {NotAValidId, NonHexId}

NoBody == Body(JsUndefined, JsUndefined, JsUndefined, JsUndefined)
Laptop == Body(Str("Laptop"), Str("High-performance laptop"), Num(999), Str("Electronics"))
PriceOnly == Body(JsUndefined, JsUndefined, Num(899), JsUndefined)
BadPrice == Body(Str("Laptop"), JsUndefined, Str("abc"), JsUndefined)
NegativePrice == Body(Str("Laptop"), JsUndefined, Num(0 - 1), JsUndefined)

EmptyName == Body(Str(""), JsUndefined, Num(999), JsUndefined)
NumericName == Body(Num(5), JsUndefined, Num(999), JsUndefined)
NoPrice == Body(Str("Laptop"), JsUndefined, JsUndefined, JsUndefined)
BadDescription == Body(Str("Laptop"), Num(1), Num(999), JsUndefined)

Bodies == {Laptop, PriceOnly, BadPrice, NegativePrice, EmptyName, NumericName, NoPrice,
           BadDescription}

\* The authorization header of a request: absent, empty, or some text.
Tokens == {JsUndefined, Str(""), Str("Bearer t")}

\* The controllers' route decorators: method and path pattern -> handler.
RouteTable ==
    { [method |-> "POST", path |-> "/products", handler |-> "createProduct"],
      [method |-> "GET", path |-> "/products", handler |-> "getProducts"],
      [method |-> "GET", path |-> "/products/:id", handler |-> "getProductById"],
      [method |-> "PATCH", path |-> "/products/:id", handler |-> "updateProductById"],
      [method |-> "DELETE", path |-> "/products/:id", handler |-> "deleteProduct"],
      [method |-> "POST", path |-> "/users", handler |-> "createUser"],
      [method |-> "GET", path |-> "/", handler |-> "getHello"] }

\* What a client can send: a routed method and path, or one no controller has.
Targets == {[method |-> r.method, path |-> r.path] : r \in RouteTable}
               \cup {[method |-> "GET", path |-> "/unknown"]}

TakesId(target) == target.path = "/products/:id"
TakesBody(target) == target.method \in {"POST", "PATCH"} /\ target.path # "/users"

Inputs ==
    { [method |-> tg.method, path |-> tg.path, token |-> tk, id |-> id, body |-> b] :
        tg \in Targets, tk \in Tokens, id \in RequestIds \cup {NoId}, b \in Bodies \cup {NoBody} }

WellFormedInput(in) ==
    /\ (in.id # NoId) <=> TakesId([method |-> in.method, path |-> in.path])
    /\ (in.body # NoBody) <=> TakesBody([method |-> in.method, path |-> in.path])

NoResponse == [status |-> 0, message |-> "", errors |-> <<>>, product |-> NoDoc,
               count |-> 0, products |-> <<>>]

Response(status, message) == [NoResponse EXCEPT !.status = status, !.message = message]

NoReq == [method |-> "", path |-> "", token |-> JsUndefined, id |-> NoId, body |-> NoBody,
          stage |-> "none", pos |-> 0, ran |-> <<>>, handler |-> "", op |-> "",
          dbResult |-> Null, dbCalls |-> 0, responses |-> 0, res |-> NoResponse]

NewReq(in) == [NoReq EXCEPT !.method = in.method, !.path = in.path, !.token = in.token,
                            !.id = in.id, !.body = in.body, !.stage = "InStack", !.pos = 1]

Live(s) == reqs[s].stage # "none"

\* The create requests in flight whose document is not inserted yet.
PendingCreates ==
    Cardinality({s \in Slots : /\ reqs[s].method = "POST" /\ reqs[s].path = "/products"
                               /\ reqs[s].stage \in {"InStack", "Dispatched", "Pending"}})

\* res.status(...).json(...) or the framework's reply: the response is sent.
Reply(r, response) ==
    [r EXCEPT !.stage = "Done", !.res = response, !.responses = @ + 1]

\* await this.productService.<op>(...): the query is issued, the handler suspends.
Await(r, op) ==
    [r EXCEPT !.stage = "Pending", !.op = op, !.dbCalls = @ + 1]

\* The HTTP server hands a new request to the express stack.
Receive ==
    /\ phase = "listening"
    /\ served < MaxRequests
    /\ \E s \in Slots :
        /\ ~Live(s)
        /\ \A q \in Slots : q < s => Live(q)
        /\ \E in \in Inputs :
            /\ WellFormedInput(in)
            /\ (in.method = "POST" /\ in.path = "/products")
                   => oidCounter + PendingCreates < MaxProducts
            /\ reqs' = [reqs EXCEPT ![s] = NewReq(in)]
    /\ served' = served + 1
    /\ UNCHANGED <<store, oidCounter, created, modified, deleted>>
    /\ UNCHANGED bootVars

AtLayer(s, layer) ==
    /\ reqs[s].stage = "InStack"
    /\ reqs[s].pos <= Len(stack)
    /\ stack[reqs[s].pos] = layer

\* next()
Next_(r, mark) == [r EXCEPT !.pos = @ + 1, !.ran = Append(@, mark)]

\* Mutant: the request is logged but next() is never called, the request hangs.
LoggerMiddleware_noNext(s) ==
    /\ AtLayer(s, "LoggerMiddleware")
    /\ reqs' = [reqs EXCEPT ![s] = [@ EXCEPT !.ran = Append(@, "Logged"), !.stage = "Hung"]]
    /\ UNCHANGED <<store, oidCounter, created, modified, deleted, served>>
    /\ UNCHANGED bootVars

\* middlewares/logger/logger.middleware.ts
LoggerMiddleware(s) ==
    /\ AtLayer(s, "LoggerMiddleware")
    /\ reqs' = [reqs EXCEPT ![s] = Next_(@, "Logged")]
    /\ UNCHANGED <<store, oidCounter, created, modified, deleted, served>>
    /\ UNCHANGED bootVars

\* Mutant: the 403 is sent without `return`, so next() is called as well.
AuthMiddleware_use_noReturn(r) ==
    IF Falsy(r.token)
    THEN [Reply([r EXCEPT !.ran = Append(@, "AuthChecked")], Response(403, "Unauthorized"))
             EXCEPT !.stage = "InStack", !.pos = @ + 1]
    ELSE Next_(r, "AuthChecked")

\* Mutant: the test of the token is inverted.
AuthMiddleware_use_inverted(r) ==
    IF ~Falsy(r.token)
    THEN Reply([r EXCEPT !.ran = Append(@, "AuthChecked")], Response(403, "Unauthorized"))
    ELSE Next_(r, "AuthChecked")

\* middlewares/auth/auth.middleware.ts: AuthMiddleware.use on one request
AuthMiddleware_use(r) ==
    IF Falsy(r.token)
    THEN Reply([r EXCEPT !.ran = Append(@, "AuthChecked")], Response(403, "Unauthorized"))
    ELSE Next_(r, "AuthChecked")

AuthMiddleware(s) ==
    /\ AtLayer(s, "AuthMiddleware")
    /\ reqs' = [reqs EXCEPT ![s] = AuthMiddleware_use(@)]
    /\ UNCHANGED <<store, oidCounter, created, modified, deleted, served>>
    /\ UNCHANGED bootVars

Matches(r) == {e \in RouteTable : e.method = r.method /\ e.path = r.path}

\* The router: the controller method decorated for the method and path, or 404.
Router(s) ==
    /\ AtLayer(s, "Router")
    /\ LET r == reqs[s]
       IN IF Matches(r) = {}
          THEN reqs' = [reqs EXCEPT ![s] = Reply(@, Response(404, "Not Found"))]
          ELSE reqs' = [reqs EXCEPT ![s] =
                           [@ EXCEPT !.stage = "Dispatched",
                                     !.handler = (CHOOSE e \in Matches(r) : TRUE).handler]]
    /\ UNCHANGED <<store, oidCounter, created, modified, deleted, served>>
    /\ UNCHANGED bootVars

----------------------------------------------------------------------------
(* ProductsController: each handler up to its await, and after it. *)

Enter(r) == [r EXCEPT !.ran = Append(@, "Handler")]

BadRequest(errors) == [Response(400, "Bad Request") EXCEPT !.errors = errors]

frame == <<store, oidCounter, created, modified, deleted, served>>

\* Mutant: the route has no @UsePipes(new ValidationPipe()).
createProduct_call_noPipe(r) == Await(Enter(r), "save")

\* @Post() @UsePipes(new ValidationPipe()) createProduct
createProduct_call(r) ==
    LET errors == ValidationPipe(CreateProductDto, r.body)
    IN IF Len(errors) > 0
       THEN Reply(r, BadRequest(errors))
       ELSE Await(Enter(r), "save")

createProduct_return(r) ==
    Reply(r, [Response(201, "Product created successfully")
                  EXCEPT !.product = r.dbResult.docs[1]])

\* @Get() getProducts
getProducts_call(r) == Await(Enter(r), "find")

getProducts_return(r) ==
    Reply(r, [Response(200, "") EXCEPT !.count = Len(r.dbResult.docs),
                                       !.products = r.dbResult.docs])

\* @Get(':id') getProductById
getProductById_call(r) ==
    IF ~ObjectId_isValid(r.id)
    THEN Reply(Enter(r), Response(400, "Invalid ID format"))
    ELSE Await(Enter(r), "findById")

getProductById_return(r) ==
    IF r.dbResult.null
    THEN Reply(r, Response(404, "Product not found"))
    ELSE Reply(r, [Response(200, "Product retrieved successfully")
                       EXCEPT !.product = r.dbResult.docs[1]])

\* @Patch(':id') @UsePipes(new ValidationPipe()) updateProductById
updateProductById_call(r) ==
    LET errors == ValidationPipe(UpdateProductDto, r.body)
    IN IF Len(errors) > 0
       THEN Reply(r, BadRequest(errors))
       ELSE IF ~ObjectId_isValid(r.id)
            THEN Reply(Enter(r), Response(400, "Invalid ID format"))
            ELSE Await(Enter(r), "findByIdAndUpdate")

updateProductById_return(r) ==
    IF r.dbResult.null
    THEN Reply(r, Response(404, "Product not found"))
    ELSE Reply(r, [Response(200, "Product successfully updated")
                       EXCEPT !.product = r.dbResult.docs[1]])

\* Mutant: the result of the query is not tested, a delete that found nothing
\* is answered like one that removed the product.
deleteProduct_return_unchecked(r) == Reply(r, Response(200, "Product successfully deleted"))

\* Mutant: the id goes to the service unchecked.
deleteProduct_call_unchecked(r) == Await(Enter(r), "findByIdAndDelete")

\* @Delete(':id') deleteProduct
deleteProduct_call(r) ==
    IF ~ObjectId_isValid(r.id)
    THEN Reply(Enter(r), Response(400, "Invalid ID format"))
    ELSE Await(Enter(r), "findByIdAndDelete")

deleteProduct_return(r) ==
    IF r.dbResult.null
    THEN Reply(r, Response(404, "Product not found"))
    ELSE Reply(r, Response(200, "Product successfully deleted"))

\* UsersController: @Post() createUser returns what the users service resolves to.
createUser_call(r) == Await(Enter(r), "users.save")

createUser_return(r) == Reply(r, Response(201, ""))

\* AppController: GET /
getHello_call(r) == Reply(Enter(r), Response(200, "Hello World!"))

HandlerCall(r) ==
    CASE r.handler = "createProduct" -> createProduct_call(r)
      [] r.handler = "getProducts" -> getProducts_call(r)
      [] r.handler = "getProductById" -> getProductById_call(r)
      [] r.handler = "updateProductById" -> updateProductById_call(r)
      [] r.handler = "deleteProduct" -> deleteProduct_call(r)
      [] r.handler = "createUser" -> createUser_call(r)
      [] OTHER -> getHello_call(r)

HandlerReturn(r) ==
    CASE r.handler = "createProduct" -> createProduct_return(r)
      [] r.handler = "getProducts" -> getProducts_return(r)
      [] r.handler = "getProductById" -> getProductById_return(r)
      [] r.handler = "updateProductById" -> updateProductById_return(r)
      [] r.handler = "deleteProduct" -> deleteProduct_return(r)
      [] OTHER -> createUser_return(r)

\* The route's pipes and its handler run up to the first await.
Invoke(s) ==
    /\ reqs[s].stage = "Dispatched"
    /\ reqs' = [reqs EXCEPT ![s] = HandlerCall(@)]
    /\ UNCHANGED frame
    /\ UNCHANGED bootVars

\* The awaited query has resolved: the handler runs to its end.
Resume(s) ==
    /\ reqs[s].stage = "Returned"
    /\ reqs' = [reqs EXCEPT ![s] = HandlerReturn(@)]
    /\ UNCHANGED frame
    /\ UNCHANGED bootVars

\* ProductsService: the query a handler awaits, applied to the collection.
ServiceCall(r, coll, counter) ==
    CASE r.op = "save" -> Model_save(coll, counter, r.body)
      [] r.op = "find" -> Model_find(coll) @@ [counter |-> counter]
      [] r.op = "findById" -> Model_findById(coll, r.id) @@ [counter |-> counter]
      [] r.op = "findByIdAndUpdate" ->
             Model_findByIdAndUpdate(coll, r.id, r.body) @@ [counter |-> counter]
      [] r.op = "findByIdAndDelete" ->
             Model_findByIdAndDelete(coll, r.id) @@ [counter |-> counter]
      [] OTHER -> [coll |-> coll, result |-> One(NoDoc), counter |-> counter]

\* MongoDB executes one pending query atomically.
MongoExec(s) ==
    /\ reqs[s].stage = "Pending"
    /\ LET r == reqs[s]
           out == ServiceCall(r, store, oidCounter)
           hit == ~out.result.null
       IN /\ store' = out.coll
          /\ oidCounter' = out.counter
          /\ reqs' = [reqs EXCEPT ![s] = [@ EXCEPT !.stage = "Returned",
                                                   !.dbResult = out.result]]
          /\ created' = IF r.op = "save" THEN created \cup {out.result.docs[1]}
                        ELSE created
          /\ modified' = IF r.op \in {"findByIdAndUpdate", "findByIdAndDelete"} /\ hit
                         THEN modified \cup {r.id} ELSE modified
          /\ deleted' = IF r.op = "findByIdAndDelete" /\ hit
                        THEN deleted \cup {r.id} ELSE deleted
    /\ UNCHANGED served
    /\ UNCHANGED bootVars

\* The response is on the wire; the request context is dropped.
Close(s) ==
    /\ reqs[s].stage = "Done"
    /\ reqs' = [reqs EXCEPT ![s] = NoReq]
    /\ UNCHANGED frame
    /\ UNCHANGED bootVars

----------------------------------------------------------------------------
(* Specifications. *)

Uri == Str("mongodb://127.0.0.1:27017/dev_db")

Paths == {EnvFilePath(JsUndefined), EnvFilePath(Str("")), EnvFilePath(Str("dev")),
          EnvFilePath(Str("prod"))}

Files == {NoFile, EnvFileWith(JsUndefined), EnvFileWith(Str("")), EnvFileWith(Uri)}

Fresh ==
    /\ envFile = ""
    /\ validatedConfig = UnsetConfig
    /\ bootError = NoError
    /\ dbUri = JsUndefined
    /\ stack = <<>>
    /\ reqs = [s \in Slots |-> NoReq]
    /\ store = <<>>
    /\ oidCounter = 0
    /\ created = {}
    /\ modified = {}
    /\ deleted = {}
    /\ served = 0

ProcessStart ==
    /\ phase = "start"
    /\ rawConfig = UnsetConfig
    /\ Fresh

\* A checkout with .env.dev filled in and .env.prod left without MONGODB_URI;
\* the process is started with NODE_ENV unset, dev or prod.
Init ==
    /\ env \in {[NODE_ENV |-> m, MONGODB_URI |-> JsUndefined, PORT |-> JsUndefined] :
                   m \in {JsUndefined, Str("dev"), Str("prod")}}
    /\ fs = [p \in Paths |->
                CASE p = ".env.dev" -> EnvFileWith(Uri)
                  [] p = ".env.prod" -> EnvFileWith(JsUndefined)
                  [] OTHER -> NoFile]
    /\ ProcessStart

Boot ==
    \/ EvaluateAppModule
    \/ ConfigModuleForRoot
    \/ bootstrap_create
    \/ bootstrap_use
    \/ bootstrap_listen

Next ==
    \/ Boot
    \/ Receive
    \/ \E s \in Slots : LoggerMiddleware(s)
    \/ \E s \in Slots : AuthMiddleware(s)
    \/ \E s \in Slots : Router(s)
    \/ \E s \in Slots : Invoke(s)
    \/ \E s \in Slots : MongoExec(s)
    \/ \E s \in Slots : Resume(s)
    \/ \E s \in Slots : Close(s)

Spec == Init /\ [][Next]_vars

\* Startup alone, over every mode, every set of env files and an environment
\* that does or does not define MONGODB_URI itself.
InitBoot ==
    /\ env \in {[NODE_ENV |-> m, MONGODB_URI |-> u, PORT |-> JsUndefined] :
                   m \in {JsUndefined, Str(""), Str("dev"), Str("prod")},
                   u \in {JsUndefined, Str("mongodb://mongo.prod.server:27017/prod_db")}}
    /\ fs \in [Paths -> Files]
    /\ ProcessStart

SpecBoot == InitBoot /\ [][Boot]_vars

\* validateEnvironmentVariables as a function of the record it is given.
RawValues == {JsUndefined, JsNull, Str(""), Uri, Str("3000"), Num(0), Num(27017),
              Bool(TRUE), Bool(FALSE)}

InitValidate ==
    /\ env = [NODE_ENV |-> JsUndefined, MONGODB_URI |-> JsUndefined, PORT |-> JsUndefined]
    /\ fs = [p \in Paths |-> NoFile]
    /\ phase = "call"
    /\ rawConfig \in [ConfigKeys -> RawValues]
    /\ Fresh

\* validateEnvironmentVariables(rawConfig): it returns the instance or throws.
CallValidateEnvironmentVariables ==
    /\ phase = "call"
    /\ LET r == validateEnvironmentVariables(rawConfig)
       IN /\ phase' = IF r.threw THEN "threw" ELSE "returned"
          /\ bootError' = r.error
          /\ validatedConfig' = IF r.threw THEN validatedConfig ELSE r.value
    /\ UNCHANGED <<env, fs, envFile, rawConfig, dbUri, stack>>
    /\ UNCHANGED reqVars

SpecValidate == InitValidate /\ [][CallValidateEnvironmentVariables]_vars

----------------------------------------------------------------------------
(* Properties. *)

Range(seq) == {seq[i] : i \in 1..Len(seq)}

LacksHeader(s) == Live(s) /\ reqs[s].token = JsUndefined

C1_RejectedInv ==
    \A s \in Slots : LacksHeader(s) =>
        /\ reqs[s].stage \in {"InStack", "Done"}
        /\ reqs[s].handler = ""
        /\ "Handler" \notin Range(reqs[s].ran)
        /\ reqs[s].dbCalls = 0
        /\ reqs[s].stage = "Done" => reqs[s].res = Response(403, "Unauthorized")

C1_StoreStep ==
    store' # store =>
        \E s \in Slots : /\ reqs[s].stage = "Pending" /\ reqs'[s].stage = "Returned"
                         /\ ~LacksHeader(s)

\* C1: a request without the authorization header, on any route, is answered
\* 403 {"message": "Unauthorized"}; no handler runs for it, it issues no
\* persistence operation, and the collection changes only in a step in which
\* the query of a request that carries a token is executed.
C1_NoHeaderRejected == []C1_RejectedInv /\ [][C1_StoreStep]_vars

C1_Witness ==
    \E s \in Slots : /\ LacksHeader(s) /\ reqs[s].stage = "Done"
                     /\ reqs[s].res.status = 403
                     /\ reqs[s].path = "/products/:id" /\ reqs[s].method = "DELETE"
                     /\ reqs[s].id \in Ids(store)

IndexIn(seq, x) == CHOOSE i \in 1..Len(seq) : seq[i] = x

Before(seq, x, y) == x \in Range(seq) /\ (y \in Range(seq) => IndexIn(seq, x) < IndexIn(seq, y))

\* C3: in every request, the logging stage has run before the authorization
\* stage and the authorization stage before the handler: a request that was
\* dispatched to a handler, ran a handler or issued a query has Logged and then
\* AuthChecked in its history, whatever the route.
C3_GateOrder ==
    \A s \in Slots : Live(s) =>
        LET r == reqs[s]
        IN /\ "AuthChecked" \in Range(r.ran) => Before(r.ran, "Logged", "AuthChecked")
           /\ ("Handler" \in Range(r.ran) \/ r.handler # "" \/ r.dbCalls > 0)
                 => /\ Before(r.ran, "Logged", "AuthChecked")
                    /\ Before(r.ran, "AuthChecked", "Handler")

C3_Witness ==
    \E s \in Slots : /\ reqs[s].ran = <<"Logged", "AuthChecked", "Handler">>
                     /\ reqs[s].handler = "createUser"
                     /\ reqs[s].stage = "Done"

ModeFile ==
    IF env.NODE_ENV.t = "undefined" THEN ".env.undefined" ELSE ".env." \o env.NODE_ENV.s

\* C4: when the file .env.<mode> does not exist (the mode unset or empty
\* included), startup fails with the file-not-found error naming that file:
\* nothing is validated, connected or registered, and the process is never
\* listening.
C4_MissingFileAborts ==
    ~existsSync(ModeFile) =>
        /\ phase \in {"start", "failed"}
        /\ phase = "failed" =>
              bootError = [kind |-> "ConfigurationMissing", detail |-> <<ModeFile>>]
        /\ rawConfig = UnsetConfig /\ validatedConfig = UnsetConfig
        /\ dbUri = JsUndefined /\ stack = <<>>

C4_Witness ==
    /\ phase = "failed" /\ bootError.kind = "ConfigurationMissing"
    /\ env.NODE_ENV = JsUndefined /\ envFile = ".env.undefined"
    /\ existsSync(".env.dev")

HasToken(s) == Live(s) /\ reqs[s].token.t = "string" /\ reqs[s].token.s # ""

Routed(s) == Matches(reqs[s]) # {}

GateStep(s) == LoggerMiddleware(s) \/ AuthMiddleware(s) \/ Router(s)

C2_PassesInv ==
    \A s \in Slots : HasToken(s) =>
        /\ reqs[s].res.status # 403
        /\ reqs[s].stage = "InStack" => ENABLED GateStep(s)
        /\ reqs[s].stage # "InStack" =>
              /\ "AuthChecked" \in Range(reqs[s].ran)
              /\ Routed(s) => reqs[s].handler \in {e.handler : e \in Matches(reqs[s])}
              /\ ~Routed(s) => reqs[s].res.status = 404

C2_Advance ==
    \A s \in Slots :
        (HasToken(s) /\ reqs[s].stage = "InStack" /\ reqs'[s] # reqs[s]) =>
            \/ reqs'[s].stage = "InStack" /\ reqs'[s].pos = reqs[s].pos + 1
            \/ reqs'[s].stage = "Dispatched" /\ Routed(s)
            \/ reqs'[s].stage = "Done" /\ ~Routed(s)

\* C2: a request whose authorization header holds any non-empty text is never
\* answered 403: the authorization stage calls next for it. While the request
\* is in the stack its next layer is always ready to run, every step it takes
\* there moves it one layer on or out of the stack, and it leaves the stack
\* dispatched to the controller method routed for its method and path (or
\* with the router's 404 when there is none).
C2_TokenReachesHandler == []C2_PassesInv /\ [][C2_Advance]_vars

C2_Witness ==
    \E s \in Slots : /\ HasToken(s) /\ reqs[s].stage = "Dispatched"
                     /\ reqs[s].handler = "deleteProduct"
                     /\ reqs[s].ran = <<"Logged", "AuthChecked">>

Aborted(kind, detail) ==
    /\ phase \in {"resolved", "failed"}
    /\ phase = "failed" => bootError = [kind |-> kind, detail |-> detail]
    /\ validatedConfig = UnsetConfig
    /\ dbUri = JsUndefined
    /\ stack = <<>>

FileLacksUri == existsSync(envFile) /\ fs[envFile].MONGODB_URI.t = "undefined"

\* C5 as stated: whenever the resolved settings file lacks MONGODB_URI, startup
\* fails with the invalid-configuration error naming MONGODB_URI, before the
\* database connection and before listening.
C5_FileLacksUriAborts ==
    FileLacksUri => Aborted("ConfigurationInvalid", <<"MONGODB_URI">>)

\* C5 as amended: whenever neither the resolved settings file nor the process
\* environment defines MONGODB_URI, startup fails with the
\* invalid-configuration error naming MONGODB_URI, before the database
\* connection and before listening.
C5_NoUriAnywhereAborts ==
    (FileLacksUri /\ env.MONGODB_URI.t = "undefined")
        => Aborted("ConfigurationInvalid", <<"MONGODB_URI">>)

C5_Witness ==
    /\ FileLacksUri /\ env.MONGODB_URI.t = "undefined"
    /\ phase = "failed" /\ bootError.kind = "ConfigurationInvalid"

DeclaredProperties ==
    {EnvironmentVariables[i].property : i \in 1..Len(EnvironmentVariables)}

\* The declared properties that are no text once the implicit conversion has
\* run: the ones that are missing or null.
Violating(config) == {p \in DeclaredProperties : config[p].t \in {"undefined", "null"}}

ById == {"getProductById", "updateProductById", "deleteProduct"}

HandlerRan(s) == Live(s) /\ "Handler" \in Range(reqs[s].ran)

\* C7: when get-by-id, update-by-id or delete-by-id runs with an id that is
\* not a well-formed ObjectId, the answer is 400 'Invalid ID format' (never
\* 404 or 500) and the handler has issued no persistence call, so the
\* collection is as it was.
C7_MalformedIdIs400 ==
    \A s \in Slots :
        (HandlerRan(s) /\ reqs[s].handler \in ById /\ reqs[s].id \in {NotAValidId, NonHexId})
            => /\ reqs[s].stage = "Done"
               /\ reqs[s].res = Response(400, "Invalid ID format")
               /\ reqs[s].dbCalls = 0
               /\ reqs[s].op = ""

C7_Witness ==
    \E s \in Slots : /\ HandlerRan(s) /\ reqs[s].handler = "updateProductById"
                     /\ reqs[s].id = NonHexId /\ reqs[s].res.status = 400
                     /\ store # <<>>

QueryRuns(s) == reqs[s].stage = "Pending" /\ reqs'[s].stage = "Returned"

C8_Answer ==
    \A s \in Slots :
        (HandlerRan(s) /\ reqs[s].handler \in ById /\ reqs[s].stage = "Done"
            /\ reqs[s].id \notin {NotAValidId, NonHexId})
            => /\ reqs[s].dbCalls = 1
               /\ reqs[s].dbResult.null => reqs[s].res = Response(404, "Product not found")
               /\ ~reqs[s].dbResult.null => reqs[s].res.status = 200

C8_Query ==
    \A s \in Slots :
        (reqs[s].handler \in ById /\ QueryRuns(s)) =>
            /\ reqs'[s].dbResult.null <=> reqs[s].id \notin Ids(store)
            /\ reqs[s].id \notin Ids(store) => store' = store

\* C8: when get-by-id, update-by-id or delete-by-id runs with a well-formed id,
\* its query finds nothing exactly when no stored product has the id, and then
\* the collection is left as it is and the answer is 404 'Product not found';
\* when a stored product has the id the answer is 200.
C8_NotFoundIs404 == []C8_Answer /\ [][C8_Query]_vars

C8_Witness ==
    \E s \in Slots : /\ reqs[s].handler = "updateProductById" /\ reqs[s].stage = "Done"
                     /\ reqs[s].res.status = 404 /\ reqs[s].id \in deleted

C9_Answers ==
    \A s \in Slots :
        /\ (reqs[s].handler = "createProduct" /\ reqs[s].res.status = 201) =>
              /\ reqs[s].res.product \in created
              /\ ObjectId_isValid(reqs[s].res.product._id)
              /\ \A f \in BodyFields : reqs[s].res.product[f] = reqs[s].body[f]
        /\ (reqs[s].handler = "getProductById" /\ reqs[s].stage = "Done"
               /\ ~reqs[s].dbResult.null) =>
              /\ reqs[s].res.status = 200
              /\ reqs[s].res.product = reqs[s].dbResult.docs[1]

C9_Query ==
    \A s \in Slots : \A d \in created :
        (reqs[s].handler = "getProductById" /\ QueryRuns(s)
            /\ reqs[s].id = d._id /\ d._id \notin modified)
            => reqs'[s].dbResult = One(d)

\* C9: the record a create answers with has an id and the attributes of the
\* payload; a get-by-id whose query runs after the create, with no update or
\* delete of that id in between, finds exactly that record, and the answer to
\* a get-by-id that found a record is 200 with the record found.
C9_CreateThenGet == []C9_Answers /\ [][C9_Query]_vars

C9_Witness ==
    \E s \in Slots : /\ reqs[s].handler = "getProductById" /\ reqs[s].stage = "Done"
                     /\ reqs[s].res.status = 200
                     /\ reqs[s].res.product \in created
                     /\ reqs[s].res.product.category = Str("Electronics")
                     /\ reqs[s].id \notin modified

C10_Answers ==
    /\ deleted \cap Ids(store) = {}
    /\ \A s \in Slots :
          (reqs[s].handler = "deleteProduct" /\ reqs[s].stage = "Done"
              /\ HandlerRan(s) /\ reqs[s].dbResult.null /\ reqs[s].id \in deleted)
              => reqs[s].res = Response(404, "Product not found")

C10_Query ==
    \A s \in Slots :
        (reqs[s].handler = "deleteProduct" /\ QueryRuns(s) /\ reqs[s].id \in deleted)
            => reqs'[s].dbResult.null /\ store' = store /\ deleted' = deleted

\* C10: an id that a delete has removed is never stored again, so every later
\* delete of it finds nothing, leaves the collection as it is and is answered
\* 404 'Product not found', never 500.
C10_DeleteAgainIs404 == []C10_Answers /\ [][C10_Query]_vars

C10_Witness ==
    \E s \in Slots : /\ reqs[s].handler = "deleteProduct" /\ reqs[s].stage = "Done"
                     /\ reqs[s].res.status = 404 /\ reqs[s].id \in deleted

Present(body) == {f \in BodyFields : body[f].t # "undefined"}

C11_Answer ==
    \A s \in Slots :
        (reqs[s].handler = "updateProductById" /\ reqs[s].stage = "Done"
            /\ HandlerRan(s) /\ ~reqs[s].dbResult.null)
            => reqs[s].res = [Response(200, "Product successfully updated")
                                 EXCEPT !.product = reqs[s].dbResult.docs[1]]

C11_Query ==
    \A s \in Slots :
        (reqs[s].handler = "updateProductById" /\ QueryRuns(s) /\ reqs[s].id \in Ids(store))
            => /\ Len(store') = Len(store)
               /\ \A i \in 1..Len(store) :
                     IF store[i]._id # reqs[s].id
                     THEN store'[i] = store[i]
                     ELSE /\ store'[i]._id = store[i]._id
                          /\ \A f \in Present(reqs[s].body) : store'[i][f] = reqs[s].body[f]
                          /\ \A f \in BodyFields \ Present(reqs[s].body) :
                                store'[i][f] = store[i][f]
                          /\ reqs'[s].dbResult = One(store'[i])

\* C11: an update-by-id that finds its product changes exactly the fields its
\* body carries: those take the body's values, the other fields and the id of
\* that product stay as stored, every other stored product stays as it is, and
\* the answer is 200 with the record as it is after the update.
C11_PartialUpdate == []C11_Answer /\ [][C11_Query]_vars

C11_Witness ==
    \E s \in Slots : /\ reqs[s].handler = "updateProductById" /\ reqs[s].stage = "Done"
                     /\ reqs[s].body = PriceOnly /\ reqs[s].res.status = 200
                     /\ reqs[s].res.product.price = Num(899)
                     /\ reqs[s].res.product.name = Str("Laptop")
                     /\ reqs[s].res.product.category = Str("Electronics")
                     /\ reqs[s].res.product \in Range(store)

NegativePriced(body) == body.price.t = "number" /\ body.price.n < 0

\* C12: every stored product has a non-negative price: a create whose price is
\* a negative number is answered 400 by the validation and issues no
\* persistence call, so no stored record has a price below 0.
C12_NonNegativePrices ==
    /\ \A i \in 1..Len(store) : ~NegativePriced(store[i])
    /\ \A s \in Slots :
          (reqs[s].handler = "createProduct" /\ NegativePriced(reqs[s].body)
              /\ reqs[s].stage \notin {"InStack", "Dispatched"})
              => /\ reqs[s].stage = "Done"
                 /\ reqs[s].res.status = 400
                 /\ reqs[s].dbCalls = 0

\* The fields of a create body that break the declared schema.
Offending(body) ==
    {f \in {"name"} : body.name.t # "string" \/ body.name.s = ""}
        \cup {f \in {"price"} : body.price.t # "number"}
        \cup {f \in {"description"} : body.description.t \notin {"undefined", "null", "string"}}

C13_Rejected ==
    \A s \in Slots :
        (reqs[s].handler = "createProduct" /\ Offending(reqs[s].body) # {}
            /\ reqs[s].stage # "Dispatched")
            => /\ reqs[s].stage = "Done"
               /\ reqs[s].res.status = 400
               /\ Range(reqs[s].res.errors) = Offending(reqs[s].body)
               /\ "Handler" \notin Range(reqs[s].ran)
               /\ reqs[s].dbCalls = 0

C13_StoreStep ==
    \A s \in Slots :
        (reqs[s].handler = "createProduct" /\ Offending(reqs[s].body) # {}
            /\ reqs'[s] # reqs[s])
            => store' = store /\ created' = created

\* C13: a create whose body breaks the declared schema (name missing, empty or
\* no text; price missing or no number; description no text) is answered 400
\* with the offending fields before the handler runs: it issues no persistence
\* call, and no step of it changes the collection or creates a record.
C13_InvalidCreateIs400 == []C13_Rejected /\ [][C13_StoreStep]_vars

C13_Witness ==
    \E s \in Slots : /\ reqs[s].handler = "createProduct" /\ reqs[s].stage = "Done"
                     /\ reqs[s].body = BadDescription /\ reqs[s].res.status = 400
                     /\ reqs[s].res.errors = <<"description">>
                     /\ store # <<>>

CreatedIds == {d._id : d \in created}

C14_Answer ==
    \A s \in Slots :
        (reqs[s].handler = "getProducts" /\ reqs[s].stage = "Done")
            => /\ reqs[s].res.status = 200
               /\ reqs[s].res.count = Len(reqs[s].res.products)
               /\ reqs[s].res.products = reqs[s].dbResult.docs

C14_Query ==
    \A s \in Slots :
        (reqs[s].handler = "getProducts" /\ QueryRuns(s))
            => /\ store' = store
               /\ reqs'[s].dbResult = Many(store)
               /\ Ids(store) = CreatedIds \ deleted
               /\ Len(store) = Cardinality(CreatedIds \ deleted)

\* C14: a list that reaches its handler is answered 200 with a count equal to
\* the length of the sequence it returns; that sequence is the collection as
\* it is when the query runs, one record for each product created and not yet
\* deleted, and the query leaves the collection as it is.
C14_ListCountsStored == []C14_Answer /\ [][C14_Query]_vars

C14_Witness ==
    \E s \in Slots : /\ reqs[s].handler = "getProducts" /\ reqs[s].stage = "Done"
                     /\ reqs[s].res.status = 200 /\ reqs[s].res.count = 2
                     /\ Len(reqs[s].res.products) = 2
                     /\ reqs[s].res.products = store

Rejected(s) == reqs[s].res.status = 403

AuthPos == IndexIn(stack, "AuthMiddleware")

C15_GateInv ==
    \A s \in Slots : Live(s) =>
        LET r == reqs[s]
        IN /\ r.responses <= 1
           /\ Len(r.ran) = Cardinality(Range(r.ran))
           /\ AtLayer(s, "LoggerMiddleware") => ENABLED LoggerMiddleware(s)
           /\ AtLayer(s, "AuthMiddleware") => ENABLED AuthMiddleware(s)
           /\ "AuthChecked" \in Range(r.ran) =>
                 /\ Rejected(s) # (r.pos > AuthPos)
                 /\ Rejected(s) =>
                       /\ r.stage = "Done" /\ r.responses = 1
                       /\ r.ran = <<"Logged", "AuthChecked">>
                       /\ r.handler = "" /\ r.dbCalls = 0
                 /\ ~Rejected(s) => r.stage # "InStack" \/ stack[r.pos] = "Router"
           /\ "AuthChecked" \notin Range(r.ran) => r.stage = "InStack" /\ r.responses = 0

C15_GateStep ==
    \A s \in Slots : (Live(s) /\ reqs'[s] # reqs[s]) =>
        /\ AtLayer(s, "LoggerMiddleware") =>
              reqs'[s] = [reqs[s] EXCEPT !.pos = @ + 1, !.ran = Append(@, "Logged")]
        /\ Rejected(s) => reqs'[s] = NoReq
        /\ reqs'[s] # NoReq =>
              /\ reqs'[s].pos >= reqs[s].pos
              /\ reqs'[s].responses >= reqs[s].responses
              /\ reqs[s].stage = "Done" => FALSE

\* C15: a request goes through the gate once: the logging stage is always
\* ready, sends nothing and hands the request on; no stage runs twice and the
\* request never moves back; after the authorization stage the request is
\* either rejected (one 403 response, finished, nothing after the
\* authorization stage ran) or handed on, never both, and a finished request
\* takes no further step.
C15_SinglePass == []C15_GateInv /\ [][C15_GateStep]_vars

C15_Witness ==
    \E s \in Slots : /\ reqs[s].token = Str("") /\ reqs[s].stage = "Done"
                     /\ Rejected(s) /\ reqs[s].responses = 1
                     /\ reqs[s].ran = <<"Logged", "AuthChecked">>
                     /\ reqs[s].method = "POST" /\ reqs[s].path = "/products"

Deleting(s, id) ==
    /\ reqs[s].handler = "deleteProduct" /\ reqs[s].id = id /\ ObjectId_isValid(id)
    /\ reqs[s].stage \in {"Pending", "Returned", "Done"}

Removed(s) == reqs[s].stage \in {"Returned", "Done"} /\ ~reqs[s].dbResult.null

C16_Outcome ==
    \A s \in Slots :
        \A id \in RequestIds : Deleting(s, id) =>
            /\ reqs[s].res.status \notin {500, 201}
            /\ reqs[s].stage = "Done" =>
                  reqs[s].res = IF reqs[s].dbResult.null
                                THEN Response(404, "Product not found")
                                ELSE Response(200, "Product successfully deleted")
            /\ Removed(s) => id \notin Ids(store)
            /\ \A q \in Slots \ {s} : Deleting(q, id) => ~(Removed(s) /\ Removed(q))

C16_Race ==
    \A s, q \in Slots : \A id \in RequestIds :
        (s # q /\ Deleting(s, id) /\ Deleting(q, id) /\ QueryRuns(s)) =>
            /\ reqs'[q] = reqs[q]
            /\ (reqs[q].stage = "Pending" /\ id \in Ids(store)) =>
                  ~reqs'[s].dbResult.null /\ id \notin Ids(store')
            /\ Removed(q) => reqs'[s].dbResult.null /\ store' = store

\* C16: of two deletes of the same stored product that are in flight together,
\* whichever query runs first removes the product and is answered 200, the
\* other then finds nothing, changes nothing and is answered 404; never both
\* 200, neither 500, and the product is absent once one of them has removed it.
C16_ConcurrentDeletes == []C16_Outcome /\ [][C16_Race]_vars

C16_Witness ==
    \E s, q \in Slots :
        /\ s # q /\ reqs[s].id = reqs[q].id /\ reqs[s].id \notin Ids(store)
        /\ reqs[s].handler = "deleteProduct" /\ reqs[q].handler = "deleteProduct"
        /\ reqs[s].stage = "Done" /\ reqs[q].stage = "Done"
        /\ reqs[s].res.status = 200 /\ reqs[q].res.status = 404
        /\ reqs[s].dbCalls = 1 /\ reqs[q].dbCalls = 1

Updating(s) == reqs[s].handler = "updateProductById" /\ HandlerRan(s)

C17_Answer ==
    \A s \in Slots :
        (Updating(s) /\ reqs[s].id \in deleted /\ reqs[s].stage = "Done"
            /\ reqs[s].dbResult.null)
            => reqs[s].res = Response(404, "Product not found")

C17_IdsStep ==
    /\ \A s \in Slots :
          (Updating(s) /\ QueryRuns(s)) =>
              /\ Ids(store') = Ids(store)
              /\ reqs[s].id \in deleted => reqs'[s].dbResult.null /\ store' = store
    /\ Ids(store') # Ids(store) =>
          \E s \in Slots :
              /\ QueryRuns(s)
              /\ \/ /\ reqs[s].handler = "createProduct"
                    /\ Ids(store') = Ids(store) \cup {reqs'[s].dbResult.docs[1]._id}
                 \/ /\ reqs[s].handler = "deleteProduct"
                    /\ Ids(store') = Ids(store) \ {reqs[s].id}

\* C17: an update never creates a record: its query leaves the set of stored
\* ids as it is, and when it runs after a delete has removed its id it finds
\* nothing, changes nothing and is answered 404; the set of stored ids changes
\* only when a create's query adds its new id or a delete's query removes its
\* id.
C17_UpdateNeverCreates == []C17_Answer /\ [][C17_IdsStep]_vars

C17_Witness ==
    \E s, q \in Slots :
        /\ s # q /\ reqs[s].id = reqs[q].id /\ reqs[s].id \in deleted
        /\ reqs[s].handler = "updateProductById" /\ reqs[q].handler = "deleteProduct"
        /\ reqs[s].stage = "Done" /\ reqs[s].res.status = 404
        /\ reqs[q].stage = "Done" /\ reqs[q].res.status = 200
        /\ reqs[s].id \notin Ids(store)

====
